---- MODULE Spec2Model ----
(***************************************************************************)
(* A model of google_cloud_components/aiplatform/utils.py: the conversion  *)
(* of an AI Platform SDK method into a pipeline component wrapper.         *)
(*                                                                         *)
(* Python values are modelled as follows.                                  *)
(*   - str: a TLA+ string (Len, SubSeq and \o act on it character-wise).   *)
(*   - dict: a sequence of [k, v] records in insertion order.              *)
(*   - an annotation: a record [k, n, args]; k is "class" (a class object  *)
(*     named n), "str" (a string annotation), "fwd" (typing.ForwardRef),   *)
(*     "generic" (a subscripted typing generic whose __origin__ is n and   *)
(*     whose __args__ is args), "empty" (inspect._empty) or "none" (None). *)
(*   - inspect.Parameter: a record [name, kind, default, annotation].      *)
(*   - inspect.Signature: a record [parameters, return_annotation].        *)
(*   - a call that may raise returns [raised, ...]: raised is "" when the  *)
(*     call returned, and the name of the exception otherwise.             *)
(***************************************************************************)
EXTENDS Integers, Sequences, FiniteSets, TLC

VARIABLES
    table,     \* RESOURCE_TO_METADATA_TYPE, the module-level dict
    pc,        \* position of the running call
    call,      \* the call in progress: the function and its arguments
    ret,       \* what the last call returned or raised
    wrapper,   \* the closure convert_method_to_component returned
    frame,     \* the locals of the running component_yaml_generator call
    stdout,    \* what the running wrapper call has printed
    wrappers,  \* every closure the caller holds, in the order generated
    generated, \* history: wrappers[i] as it was when it was generated
    remembered \* history: one earlier wrapper call and what came of it

\* the closures held and the history kept about them
held == <<wrappers, generated, remembered>>

vars == <<table, pc, call, ret, wrapper, frame, stdout, held>>

(***************************************************************************)
(* Bounds of the model.                                                    *)
(***************************************************************************)
\* longest signature handed to filter_signature / signatures_union
MaxParams == 2
\* most keyword arguments handed to one wrapper call
MaxKwargs == 2

(***************************************************************************)
(* str methods.                                                            *)
(***************************************************************************)
endswith(s, suffix) ==
    /\ Len(s) >= Len(suffix)
    /\ SubSeq(s, Len(s) - Len(suffix) + 1, Len(s)) = suffix

startswith(s, prefix) ==
    /\ Len(s) >= Len(prefix)
    /\ SubSeq(s, 1, Len(prefix)) = prefix

\* s[:-n] for 0 < n
DropLast(s, n) == IF Len(s) >= n THEN SubSeq(s, 1, Len(s) - n) ELSE ""

\* s[n:]
DropFirst(s, n) == IF Len(s) >= n THEN SubSeq(s, n + 1, Len(s)) ELSE ""

UpperCase == "ABCDEFGHIJKLMNOPQRSTUVWXYZ"
LowerCase == "abcdefghijklmnopqrstuvwxyz"

LowerChar(c) ==
    IF \E i \in 1..Len(UpperCase) : SubSeq(UpperCase, i, i) = c
    THEN LET i == CHOOSE j \in 1..Len(UpperCase) : SubSeq(UpperCase, j, j) = c
         IN  SubSeq(LowerCase, i, i)
    ELSE c

RECURSIVE lower(_)
lower(s) ==
    IF s = "" THEN ""
    ELSE LowerChar(SubSeq(s, 1, 1)) \o lower(SubSeq(s, 2, Len(s)))

\* s.split('.')[-1]
RECURSIVE LastDotPart(_)
LastDotPart(s) ==
    IF \E i \in 1..Len(s) : SubSeq(s, i, i) = "."
    THEN LET i == CHOOSE j \in 1..Len(s) : SubSeq(s, j, j) = "."
         IN  LastDotPart(SubSeq(s, i + 1, Len(s)))
    ELSE s

(***************************************************************************)
(* dict operations (insertion ordered).                                    *)
(***************************************************************************)
DictKeys(d) == { d[i].k : i \in 1..Len(d) }

DictHas(d, key) == \E i \in 1..Len(d) : d[i].k = key

DictAt(d, key) == d[CHOOSE i \in 1..Len(d) : d[i].k = key].v

\* d.get(key, default)
DictGet(d, key, default) == IF DictHas(d, key) THEN DictAt(d, key) ELSE default

\* d[key] = value
DictSet(d, key, value) ==
    IF DictHas(d, key)
    THEN [ i \in 1..Len(d) |->
             IF d[i].k = key THEN [k |-> key, v |-> value] ELSE d[i] ]
    ELSE Append(d, [k |-> key, v |-> value])

(***************************************************************************)
(* Annotations and the class hierarchy of the SDK.                         *)
(***************************************************************************)
Class(n)         == [k |-> "class",   n |-> n,  args |-> <<>>]
StrAnn(s)        == [k |-> "str",     n |-> s,  args |-> <<>>]
ForwardRef(s)    == [k |-> "fwd",     n |-> s,  args |-> <<>>]
Generic(o, as)   == [k |-> "generic", n |-> o,  args |-> as]
_empty           == [k |-> "empty",   n |-> "", args |-> <<>>]
None             == [k |-> "none",    n |-> "", args |-> <<>>]

Optional(a)      == Generic("Union", <<a, Class("NoneType")>>)
Union(a, b)      == Generic("Union", <<a, b>>)

\* The base class of every class of the model ("object" has none).
BaseOf(n) ==
    CASE n = "_Dataset"               -> "AiPlatformResourceNoun"
      [] n = "TabularDataset"         -> "_Dataset"
      [] n = "Model"                  -> "AiPlatformResourceNoun"
      [] n = "Endpoint"               -> "AiPlatformResourceNoun"
      [] n = "BatchPredictionJob"     -> "AiPlatformResourceNoun"
      [] n = "Featurestore"           -> "AiPlatformResourceNoun"
      [] n = "object"                 -> ""
      [] OTHER                        -> "object"

RECURSIVE issubclass(_, _)
issubclass(c, base) ==
    IF c = base THEN TRUE
    ELSE IF BaseOf(c) = "" THEN FALSE
    ELSE issubclass(BaseOf(c), base)

isclass(a) == a.k = "class"

\* truth value of an object the model holds as an annotation
Truthy(a) ==
    CASE a.k = "none" -> FALSE
      [] a.k = "str"  -> a.n # ""
      [] OTHER        -> TRUE

\* the names the aiplatform package exports
AiplatformExports ==
    {"Model", "Endpoint", "BatchPredictionJob", "TabularDataset", "Featurestore"}

\* getattr(aiplatform, name, None)
AiplatformGetattr(name) ==
    IF name \in AiplatformExports THEN Class(name) ELSE None

\* getattr(annotation, '__origin__', None)
Origin(a) == IF a.k = "generic" THEN a.n ELSE ""

(***************************************************************************)
(* RESOURCE_TO_METADATA_TYPE                                               *)
(***************************************************************************)
ResourceToMetadataType ==
    << [k |-> "_Dataset",           v |-> "Dataset"],
       [k |-> "Model",              v |-> "Model"],
       [k |-> "Endpoint",           v |-> "Artifact"],
       [k |-> "BatchPredictionJob", v |-> "Artifact"] >>

(***************************************************************************)
(* get_forward_reference, resolve_annotation                               *)
(***************************************************************************)
get_aiplatform_class_by_name(a) ==
    IF a.k = "str" THEN AiplatformGetattr(a.n) ELSE None

get_forward_reference(a) ==
    IF Truthy(get_aiplatform_class_by_name(a))
    THEN get_aiplatform_class_by_name(a)
    ELSE IF a.k = "fwd"
         THEN IF Truthy(get_aiplatform_class_by_name(StrAnn(a.n)))
              THEN get_aiplatform_class_by_name(StrAnn(a.n))
              ELSE None
         ELSE None

resolve_annotation(a) ==
    IF isclass(a) /\ issubclass(a.n, "AiPlatformResourceNoun") THEN a
    ELSE IF Truthy(get_forward_reference(a)) THEN get_forward_reference(a)
    ELSE IF Origin(a) = "Union"
         THEN IF Truthy(get_forward_reference(a.args[1]))
              THEN get_forward_reference(a.args[1])
              ELSE a.args[1]
    ELSE IF a = _empty THEN None
    ELSE a

(***************************************************************************)
(* is_serializable_to_json, is_mb_sdk_resource_noun_type, get_serializer   *)
(***************************************************************************)
is_serializable_to_json(a) == Origin(a) \in {"dict", "list", "Sequence"}

is_mb_sdk_resource_noun_type(t) ==
    IF isclass(t) THEN issubclass(t.n, "AiPlatformResourceNoun") ELSE FALSE

\* "json.dumps" or "" (None)
get_serializer(a) == IF is_serializable_to_json(a) THEN "json.dumps" ELSE ""

(***************************************************************************)
(* map_resource_to_metadata_type: the pair returned, or NoPair when the    *)
(* function falls off its end and returns None.                            *)
(***************************************************************************)
NoPair == [name |-> "", type |-> ""]

\* the mutant: the leading underscore of _Dataset is kept
ParameterNameOfKey_keeps_underscore(key) == lower(LastDotPart(key))

ParameterNameOfKey(key) ==
    LET parameter_name == lower(LastDotPart(key))
    IN  IF startswith(parameter_name, "_")
        THEN DropFirst(parameter_name, 1)
        ELSE parameter_name

\* the first key, in the dict's order, that mb_sdk_type is a subclass of
FirstMatch(tbl, t) ==
    IF \E i \in 1..Len(tbl) : issubclass(t.n, tbl[i].k)
    THEN CHOOSE i \in 1..Len(tbl) :
            /\ issubclass(t.n, tbl[i].k)
            /\ \A j \in 1..(i - 1) : ~issubclass(t.n, tbl[j].k)
    ELSE 0

map_resource_to_metadata_type(tbl, t) ==
    IF is_mb_sdk_resource_noun_type(t) /\ FirstMatch(tbl, t) # 0
    THEN [name |-> ParameterNameOfKey(tbl[FirstMatch(tbl, t)].k),
          type |-> tbl[FirstMatch(tbl, t)].v]
    ELSE IF is_serializable_to_json(t)
    THEN [name |-> "exported_dataset", type |-> "JsonArray"]
    ELSE IF t = StrAnn("_Dataset")
    THEN [name |-> "dataset", type |-> "Dataset"]
    ELSE NoPair

(***************************************************************************)
(* inspect.Parameter and inspect.Signature                                 *)
(***************************************************************************)
\* inspect.Parameter.empty as a default
NoDefault == "<empty>"

Parameter(name, kind, default, annotation) ==
    [name |-> name, kind |-> kind, default |-> default,
     annotation |-> annotation]

\* inspect.Parameter raises for a name that is no identifier (ValueError;
\* IndexError for the empty name on Python 3.11): "ValueError" stands for
\* either, no property tells them apart
IsIdentifier(name) == name # ""

KindRank(kind) ==
    CASE kind = "POSITIONAL_OR_KEYWORD" -> 1
      [] kind = "KEYWORD_ONLY"          -> 3

\* what inspect.Signature(parameters=...) accepts: kinds in order, no
\* positional parameter without a default after one with a default, no
\* name twice
ValidParameters(ps) ==
    \A i, j \in 1..Len(ps) :
        i < j =>
            /\ ps[i].name # ps[j].name
            /\ KindRank(ps[i].kind) <= KindRank(ps[j].kind)
            /\ ~ ( /\ ps[i].kind = "POSITIONAL_OR_KEYWORD"
                   /\ ps[j].kind = "POSITIONAL_OR_KEYWORD"
                   /\ ps[i].default # NoDefault
                   /\ ps[j].default = NoDefault )

Signature(ps, return_annotation) ==
    [parameters |-> ps, return_annotation |-> return_annotation]

ParameterNames(sig) == { sig.parameters[i].name : i \in 1..Len(sig.parameters) }

\* signature.parameters[name]
ParameterNamed(sig, name) ==
    sig.parameters[CHOOSE i \in 1..Len(sig.parameters) :
                      sig.parameters[i].name = name]

(***************************************************************************)
(* is_resource_name_parameter_name, PARAMS_TO_REMOVE, filter_signature     *)
(***************************************************************************)
\* the mutant: display names are recognised by their ending, not exactly
is_resource_name_by_ending(param_name) ==
    /\ ~endswith(param_name, "display_name")
    /\ ~endswith(param_name, "encryption_spec_key_name")
    /\ endswith(param_name, "_name")

is_resource_name_parameter_name(param_name) ==
    /\ param_name # "display_name"
    /\ ~endswith(param_name, "encryption_spec_key_name")
    /\ endswith(param_name, "_name")

\* the mutant: 'sync' is kept
PARAMS_TO_REMOVE_without_sync == {"self", "credentials"}

PARAMS_TO_REMOVE == {"self", "credentials", "sync"}

\* The loop of filter_signature from parameter i on. has_map is FALSE when
\* component_param_name_to_mb_sdk_param_name is None (its default).
RECURSIVE FilterLoop(_, _, _, _, _, _, _)
FilterLoop(ps, i, is_init_signature, self_type, has_map, map, new_params) ==
    IF i > Len(ps)
    THEN [raised |-> "", new_params |-> new_params, map |-> map]
    ELSE LET param == ps[i] IN
         IF param.name \in PARAMS_TO_REMOVE
         THEN FilterLoop(ps, i + 1, is_init_signature, self_type, has_map,
                         map, new_params)
         ELSE IF is_init_signature
                 /\ is_resource_name_parameter_name(param.name)
         THEN LET new_name == DropLast(param.name, Len("_name")) IN
              IF ~IsIdentifier(new_name)
              THEN [raised |-> "ValueError", new_params |-> new_params,
                    map |-> map]
              ELSE IF ~has_map
              THEN [raised |-> "TypeError", new_params |-> new_params,
                    map |-> map]
              ELSE FilterLoop(ps, i + 1, is_init_signature, self_type,
                              has_map, DictSet(map, new_name, param.name),
                              Append(new_params,
                                     Parameter(new_name, param.kind,
                                               param.default, self_type)))
         ELSE FilterLoop(ps, i + 1, is_init_signature, self_type, has_map,
                         map, Append(new_params, param))

\* [raised, signature, map]: when raised is "" the signature returned and
\* the rename dict as the call left it.
filter_signature(signature, is_init_signature, self_type, has_map, map) ==
    LET r == FilterLoop(signature.parameters, 1, is_init_signature,
                        self_type, has_map, map, <<>>)
    IN  IF r.raised # ""
        THEN [raised |-> r.raised, signature |-> Signature(<<>>, _empty),
              map |-> r.map]
        ELSE IF ~ValidParameters(r.new_params)
        THEN [raised |-> "ValueError", signature |-> Signature(<<>>, _empty),
              map |-> r.map]
        ELSE [raised |-> "",
              signature |-> Signature(r.new_params,
                                      signature.return_annotation),
              map |-> r.map]

(***************************************************************************)
(* signatures_union                                                        *)
(***************************************************************************)
\* key(param), the sort key of signatures_union
signatures_union_key(param) == IF param.default = NoDefault THEN -1 ELSE 1

\* list.sort(key=key): a stable sort, here by insertion
RECURSIVE SortByKey(_)
SortByKey(ps) ==
    IF ps = <<>> THEN <<>>
    ELSE LET front == SortByKey(SubSeq(ps, 1, Len(ps) - 1))
             p     == ps[Len(ps)]
             at    == Cardinality({ i \in 1..Len(front) :
                                      signatures_union_key(front[i]) <= signatures_union_key(p) })
         IN  SubSeq(front, 1, at) \o <<p>> \o SubSeq(front, at + 1, Len(front))

\* the mutant: the method's parameters come first
signatures_union_method_first(init_sig, method_sig) ==
    LET params == SortByKey(method_sig.parameters \o init_sig.parameters)
    IN  IF ~ValidParameters(params)
        THEN [raised |-> "ValueError", signature |-> Signature(<<>>, _empty)]
        ELSE [raised |-> "",
              signature |-> Signature(params, method_sig.return_annotation)]

signatures_union(init_sig, method_sig) ==
    LET params == SortByKey(init_sig.parameters \o method_sig.parameters)
    IN  IF ~ValidParameters(params)
        THEN [raised |-> "ValueError", signature |-> Signature(<<>>, _empty)]
        ELSE [raised |-> "",
              signature |-> Signature(params, method_sig.return_annotation)]

(***************************************************************************)
(* Values handed to the wrapper as keyword arguments: None, a str, a list  *)
(* of str, or a kfp PipelineParam.                                         *)
(***************************************************************************)
PyNone            == [t |-> "NoneType",      s |-> "",   items |-> <<>>]
PyStr(s)          == [t |-> "str",           s |-> s,    items |-> <<>>]
PyList(items)     == [t |-> "list",          s |-> "",   items |-> items]
PipelineParam(n)  == [t |-> "PipelineParam", s |-> n,    items |-> <<>>]

RECURSIVE JoinQuoted(_, _, _)
JoinQuoted(items, quote, i) ==
    IF i > Len(items) THEN ""
    ELSE quote \o items[i] \o quote
           \o (IF i < Len(items) THEN ", " ELSE "")
           \o JoinQuoted(items, quote, i + 1)

\* f"{value}"
Format(value) ==
    CASE value.t = "str"           -> value.s
      [] value.t = "list"          -> "[" \o JoinQuoted(value.items, "'", 1) \o "]"
      [] value.t = "NoneType"      -> "None"
      [] value.t = "PipelineParam" -> "{{pipelineparam:op=;name=" \o value.s \o "}}"

\* json.dumps raises TypeError for an object that is not JSON serializable
JsonSerializable(value) == value.t \in {"str", "list", "NoneType"}

\* json.dumps(value)
json_dumps(value) ==
    CASE value.t = "str"      -> PyStr("\"" \o value.s \o "\"")
      [] value.t = "list"     -> PyStr("[" \o JoinQuoted(value.items, "\"", 1) \o "]")
      [] value.t = "NoneType" -> PyStr("null")

(***************************************************************************)
(* Signature.bind of keyword arguments: every keyword names a parameter and *)
(* every parameter without a default is given (no signature of the model   *)
(* has a variadic parameter).                                              *)
(***************************************************************************)
Binds(sig, kwargs) ==
    /\ DictKeys(kwargs) \subseteq ParameterNames(sig)
    /\ \A i \in 1..Len(sig.parameters) :
         sig.parameters[i].default = NoDefault =>
            sig.parameters[i].name \in DictKeys(kwargs)

(***************************************************************************)
(* Docstrings. docstring_parser.parse(text) is held parsed: [parses,       *)
(* short_description, long_description, params, returns, raises], params   *)
(* and raises being dicts; parses is FALSE when parse raises ValueError.   *)
(* Descriptions are single lines. A rendered docstring is a sequence of    *)
(* lines.                                                                  *)
(***************************************************************************)
Docstring(text, parses, short, long, params, returns, raises) ==
    [text |-> text, parses |-> parses, short_description |-> short,
     long_description |-> long, params |-> params, returns |-> returns,
     raises |-> raises]

\* the loop of filter_docstring_args from parameter i on
RECURSIVE DocstringArgsLoop(_, _, _, _, _)
DocstringArgsLoop(ps, i, args_dict, is_init_signature, new_args_dict) ==
    IF i > Len(ps) THEN new_args_dict
    ELSE LET param == ps[i]
             new_arg_name ==
                 IF is_init_signature
                    /\ is_resource_name_parameter_name(param.name)
                 THEN DropLast(param.name, Len("_name"))
                 ELSE param.name
         IN  IF param.name \notin PARAMS_TO_REMOVE
                /\ DictGet(args_dict, param.name, "") # ""
             THEN DocstringArgsLoop(ps, i + 1, args_dict, is_init_signature,
                     DictSet(new_args_dict, new_arg_name,
                             DictGet(args_dict, param.name, "")))
             ELSE DocstringArgsLoop(ps, i + 1, args_dict, is_init_signature,
                                    new_args_dict)

filter_docstring_args(signature, docstring, is_init_signature) ==
    IF ~docstring.parses THEN <<>>
    ELSE DocstringArgsLoop(signature.parameters, 1, docstring.params,
                           is_init_signature, <<>>)

\* dict.update(other)
RECURSIVE DictUpdate(_, _)
DictUpdate(d, other) ==
    IF other = <<>> THEN d
    ELSE DictUpdate(DictSet(d, other[1].k, other[1].v), Tail(other))

RECURSIVE ArgLines(_)
ArgLines(args_dict) ==
    IF args_dict = <<>> THEN <<>>
    ELSE << "    " \o args_dict[1].k \o ":", "        " \o args_dict[1].v >>
            \o ArgLines(Tail(args_dict))

generate_docstring(args_dict, signature, method_docstring) ==
    IF ~method_docstring.parses THEN <<method_docstring.text>>
    ELSE <<method_docstring.short_description>>
         \o (IF method_docstring.long_description # ""
             THEN <<method_docstring.long_description>> ELSE <<>>)
         \o (IF args_dict # <<>> THEN <<"Args:">> \o ArgLines(args_dict) ELSE <<>>)
         \o (IF method_docstring.returns # ""
             THEN <<"Returns:", "        " \o method_docstring.returns>>
             ELSE <<>>)
         \o (IF method_docstring.raises # <<>>
             THEN <<"Raises:">> \o ArgLines(args_dict) ELSE <<>>)

(***************************************************************************)
(* convert_method_to_component: everything but the wrapper's body.         *)
(***************************************************************************)
INIT_KEY   == "init"
METHOD_KEY == "method"
DEFAULT_CONTAINER_IMAGE == "gcr.io/sashaproject-1/aiplatform_component:latest"

\* what a part of the manifest contributes to "\n".join([...]): its lines,
\* or one empty line when the part is ''
Part(lines) == IF lines = <<>> THEN <<"">> ELSE lines

\* [raised, at, wrapper]
convert_method_to_component(tbl, cls, method) ==
    LET should_serialize_init == method.isfunction
        m == filter_signature(method.signature, FALSE, None, FALSE, <<>>)
        c == filter_signature(cls.init_signature, TRUE, Class(cls.name),
                              TRUE, <<>>)
        method_signature == m.signature
        init_signature   == c.signature
        init_arg_names ==
            IF should_serialize_init THEN ParameterNames(init_signature) ELSE {}
        output_type == resolve_annotation(method_signature.return_annotation)
        pair == map_resource_to_metadata_type(tbl, output_type)
        outputs ==
            IF Truthy(output_type)
            THEN << "outputs:",
                    "- {name: " \o pair.name \o ", type: " \o pair.type \o "}" >>
            ELSE <<>>
        output_args ==
            IF Truthy(output_type)
            THEN << "    - --resource_name_output_artifact_path",
                    "    - {outputPath: " \o pair.name \o "}" >>
            ELSE <<>>
        union == signatures_union(init_signature, method_signature)
        signature ==
            IF should_serialize_init THEN union.signature ELSE method_signature
        new_args_dict ==
            LET from_method ==
                    DictUpdate(<<>>, filter_docstring_args(method_signature,
                                                           method.doc, FALSE))
            IN  IF should_serialize_init
                THEN DictUpdate(from_method,
                                filter_docstring_args(init_signature,
                                                      cls.init_doc, TRUE))
                ELSE from_method
        failed(exception, at) ==
            [raised |-> exception, at |-> at, wrapper |-> [made |-> FALSE]]
    IN  IF m.raised # "" THEN failed(m.raised, "filter_signature")
        ELSE IF c.raised # "" THEN failed(c.raised, "filter_signature")
        ELSE IF Truthy(output_type) /\ pair = NoPair
        THEN failed("TypeError", "map_resource_to_metadata_type")
        ELSE IF should_serialize_init /\ union.raised # ""
        THEN failed(union.raised, "signatures_union")
        ELSE [raised |-> "", at |-> "",
              wrapper |->
                [made |-> TRUE,
                 cls |-> cls,
                 method |-> method,
                 cls_name |-> cls.name,
                 method_name |-> method.name,
                 should_serialize_init |-> should_serialize_init,
                 component_param_name_to_mb_sdk_param_name |-> c.map,
                 method_signature |-> method_signature,
                 init_signature |-> init_signature,
                 init_arg_names |-> init_arg_names,
                 outputs |-> outputs,
                 output_args |-> output_args,
                 signature |-> signature,
                 doc |-> generate_docstring(new_args_dict, signature,
                                            method.doc)]]

(***************************************************************************)
(* component_yaml_generator, the wrapper.                                  *)
(***************************************************************************)
\* the locals before the loop over kwargs
NewFrame ==
    [active |-> TRUE, raised |-> "", at |-> "",
     inputs |-> <<"inputs:">>, input_args |-> <<>>, input_kwargs |-> <<>>,
     serialized_init |-> <<>>, serialized_method |-> <<>>,
     init_kwargs |-> <<>>, method_kwargs |-> <<>>,
     component_text |-> <<>>]

\* the body of the loop over kwargs.items() for (key, value)
ClassifyArgument(tbl, w, f, key, value) ==
    LET is_init == key \in w.init_arg_names
        prefix_key == IF is_init THEN INIT_KEY ELSE METHOD_KEY
        signature == IF is_init THEN w.init_signature ELSE w.method_signature
        f1 == IF is_init
              THEN [f EXCEPT !.init_kwargs = DictSet(@, key, value)]
              ELSE [f EXCEPT !.method_kwargs = DictSet(@, key, value)]
    IN  IF value = PyNone THEN f1
        ELSE IF key \notin ParameterNames(signature)
        THEN [f1 EXCEPT !.raised = "KeyError",
                        !.at = "signature.parameters[key]"]
        ELSE
        LET annotation == resolve_annotation(ParameterNamed(signature, key).annotation)
            serializer == get_serializer(annotation)
            param_type == IF serializer # "" THEN Class("str") ELSE annotation
            component_param_name ==
                DictGet(w.component_param_name_to_mb_sdk_param_name, key, key)
        IN  IF serializer # "" /\ ~JsonSerializable(value)
            THEN [f1 EXCEPT !.raised = "TypeError", !.at = "json.dumps"]
            ELSE
            LET value1 == IF serializer # "" THEN json_dumps(value) ELSE value
            IN  IF value1.t = "PipelineParam" \/ serializer # ""
                THEN IF is_mb_sdk_resource_noun_type(param_type)
                        /\ map_resource_to_metadata_type(tbl, param_type) = NoPair
                     THEN [f1 EXCEPT !.raised = "TypeError",
                                     !.at = "map_resource_to_metadata_type"]
                     ELSE
                     LET component_param_type ==
                             IF is_mb_sdk_resource_noun_type(param_type)
                             THEN map_resource_to_metadata_type(tbl, param_type).type
                             ELSE "String"
                         component_type ==
                             IF is_mb_sdk_resource_noun_type(param_type)
                             THEN "inputPath" ELSE "inputValue"
                     IN  [f1 EXCEPT
                            !.inputs = Append(@, "- {name: " \o key \o ", type: "
                                                   \o component_param_type \o "}"),
                            !.input_args = @ \o
                                << "    - --" \o prefix_key \o "."
                                      \o component_param_name,
                                   "    - {" \o component_type \o ": " \o key \o "}" >>,
                            !.input_kwargs = DictSet(@, key, value1)]
                ELSE IF is_init
                THEN [f1 EXCEPT !.serialized_init =
                                   DictSet(@, component_param_name, value1)]
                ELSE [f1 EXCEPT !.serialized_method =
                                   DictSet(@, component_param_name, value1)]

\* the loop over kwargs.items() from item i on; it ends where one raises
RECURSIVE ClassifyLoop(_, _, _, _, _)
ClassifyLoop(tbl, w, f, kwargs, i) ==
    IF i > Len(kwargs) \/ f.raised # "" THEN f
    ELSE ClassifyLoop(tbl, w,
                      ClassifyArgument(tbl, w, f, kwargs[i].k, kwargs[i].v),
                      kwargs, i + 1)

RECURSIVE FlagLines(_, _)
FlagLines(prefix_key, args) ==
    IF args = <<>> THEN <<>>
    ELSE << "    - --" \o prefix_key \o "." \o args[1].k \o "="
               \o Format(args[1].v) >>
            \o FlagLines(prefix_key, Tail(args))

\* make_args(serialized_args)
make_args(serialized_init, serialized_method) ==
    FlagLines(INIT_KEY, serialized_init) \o FlagLines(METHOD_KEY, serialized_method)

\* the lines of component_text
ComponentText(w, f) ==
    << "name: " \o w.cls_name \o "-" \o w.method_name >>
    \o Part(IF Len(f.inputs) > 1 THEN f.inputs ELSE <<>>)
    \o Part(w.outputs)
    \o << "implementation:",
          "  container:",
          "    image: " \o DEFAULT_CONTAINER_IMAGE,
          "    command:",
          "    - python3",
          "    - -m",
          "    - google_cloud_components.aiplatform.remote_runner",
          "    - --cls_name=" \o w.cls_name,
          "    - --method_name=" \o w.method_name >>
    \o Part(make_args(f.serialized_init, f.serialized_method))
    \o << "    args:" >>
    \o Part(w.output_args)
    \o Part(f.input_args)

(***************************************************************************)
(* The state when no call is in progress, and the inputs of the calls.     *)
(***************************************************************************)
NoWrapper == [made |-> FALSE]
NoFrame   == [active |-> FALSE]
NoCall    == [fn |-> ""]
NoRet     == [raised |-> ""]
NoRemembered == [made |-> FALSE]

\* every sequence of at most n distinct members of pool
SeqsUpTo(pool, n) ==
    UNION { { s \in [1..m -> pool] :
                \A i, j \in 1..m : i < j => s[i] # s[j] } : m \in 0..n }

\* every order of the entries of a dict
Orders(d) ==
    { s \in [1..Len(d) -> { d[i] : i \in 1..Len(d) }] :
        \A i, j \in 1..Len(d) : i < j => s[i] # s[j] }

ClassNames ==
    {"AiPlatformResourceNoun", "_Dataset", "TabularDataset", "Model",
     "Endpoint", "BatchPredictionJob", "Featurestore", "str", "int",
     "NoneType", "Prediction"}

ReferenceNames == {"Model", "Endpoint", "TabularDataset", "_Dataset", "Prediction"}

GenericAnnotations ==
    { Generic("list", <<Class("str")>>),
      Generic("dict", <<Class("str"), Class("str")>>),
      Generic("Sequence", <<Class("str")>>),
      Generic("tuple", <<Class("str"), Class("int")>>) }

\* what typing.Union holds as an argument: a string becomes a ForwardRef
UnionArguments ==
    { Class(n) : n \in ClassNames } \cup { ForwardRef(n) : n \in ReferenceNames }
        \cup GenericAnnotations

Annotations ==
    { Class(n) : n \in ClassNames }
        \cup { StrAnn(n) : n \in ReferenceNames }
        \cup { ForwardRef(n) : n \in ReferenceNames }
        \cup GenericAnnotations
        \cup { Union(ab[1], ab[2]) :
                   ab \in { x \in UnionArguments \X UnionArguments :
                              x[1] # x[2] } }
        \cup { _empty, None }

(***************************************************************************)
(* resolve_annotation as a call.                                           *)
(***************************************************************************)
InitResolve ==
    /\ table = ResourceToMetadataType
    /\ pc = "called"
    /\ call \in { [fn |-> "resolve_annotation", annotation |-> a] :
                    a \in Annotations }
    /\ ret = NoRet
    /\ wrapper = NoWrapper
    /\ frame = NoFrame
    /\ stdout = <<>>
    /\ wrappers = <<>>
    /\ generated = <<>>
    /\ remembered = NoRemembered

ResolveAnnotation ==
    /\ pc = "called"
    /\ call.fn = "resolve_annotation"
    /\ ret' = [raised |-> "", value |-> resolve_annotation(call.annotation)]
    /\ pc' = "returned"
    /\ UNCHANGED <<table, call, wrapper, frame, stdout, held>>

SpecResolve == InitResolve /\ [][ResolveAnnotation]_vars

(***************************************************************************)
(* map_resource_to_metadata_type as a call. The dict is read in the order  *)
(* the state holds it in.                                                  *)
(***************************************************************************)
InitMap ==
    /\ table \in Orders(ResourceToMetadataType)
    /\ pc = "called"
    /\ call \in { [fn |-> "map_resource_to_metadata_type", mb_sdk_type |-> a] :
                    a \in Annotations }
    /\ ret = NoRet
    /\ wrapper = NoWrapper
    /\ frame = NoFrame
    /\ stdout = <<>>
    /\ wrappers = <<>>
    /\ generated = <<>>
    /\ remembered = NoRemembered

MapResourceToMetadataType ==
    /\ pc = "called"
    /\ call.fn = "map_resource_to_metadata_type"
    /\ ret' = [raised |-> "",
               value |-> map_resource_to_metadata_type(table, call.mb_sdk_type)]
    /\ pc' = "returned"
    /\ UNCHANGED <<table, call, wrapper, frame, stdout, held>>

SpecMap == InitMap /\ [][MapResourceToMetadataType]_vars

(***************************************************************************)
(* filter_signature as a call.                                             *)
(***************************************************************************)
FilterPool ==
    { Parameter("self", "POSITIONAL_OR_KEYWORD", NoDefault, _empty),
      Parameter("model_name", "POSITIONAL_OR_KEYWORD", NoDefault, Class("str")),
      Parameter("model", "POSITIONAL_OR_KEYWORD", NoDefault, Class("str")),
      Parameter("display_name", "POSITIONAL_OR_KEYWORD", NoDefault, Class("str")),
      Parameter("model_display_name", "POSITIONAL_OR_KEYWORD", "None",
                Optional(Class("str"))),
      Parameter("training_encryption_spec_key_name", "POSITIONAL_OR_KEYWORD",
                "None", Optional(Class("str"))),
      Parameter("project", "POSITIONAL_OR_KEYWORD", "None", Optional(Class("str"))),
      Parameter("credentials", "POSITIONAL_OR_KEYWORD", "None",
                Optional(Class("Credentials"))),
      Parameter("sync", "POSITIONAL_OR_KEYWORD", "True", Class("bool")),
      Parameter("sync_name", "POSITIONAL_OR_KEYWORD", "None",
                Optional(Class("str"))),
      Parameter("_name", "POSITIONAL_OR_KEYWORD", "None", Optional(Class("str"))),
      Parameter("labels", "KEYWORD_ONLY", "None",
                Optional(Generic("dict", <<Class("str"), Class("str")>>))) }

\* the signatures inspect.signature can return over a pool of parameters
SignaturesOver(pool, returns) ==
    { Signature(ps, r) : ps \in { s \in SeqsUpTo(pool, MaxParams) :
                                    ValidParameters(s) },
                         r \in returns }

InitFilter ==
    /\ table = ResourceToMetadataType
    /\ pc = "called"
    /\ call \in
         { [fn |-> "filter_signature", signature |-> sig,
            is_init_signature |-> b, self_type |-> t,
            has_map |-> m[1], map |-> m[2]] :
             sig \in SignaturesOver(FilterPool, {_empty, Class("Endpoint")}),
             b \in BOOLEAN,
             t \in {None, Class("Model")},
             m \in { <<FALSE, <<>> >>, <<TRUE, <<>> >>,
                     <<TRUE, <<[k |-> "model", v |-> "name"],
                               [k |-> "project", v |-> "project_name"]>> >> } }
    /\ ret = NoRet
    /\ wrapper = NoWrapper
    /\ frame = NoFrame
    /\ stdout = <<>>
    /\ wrappers = <<>>
    /\ generated = <<>>
    /\ remembered = NoRemembered

FilterSignature ==
    /\ pc = "called"
    /\ call.fn = "filter_signature"
    /\ ret' = filter_signature(call.signature, call.is_init_signature,
                               call.self_type, call.has_map, call.map)
    /\ pc' = "returned"
    /\ UNCHANGED <<table, call, wrapper, frame, stdout, held>>

SpecFilter == InitFilter /\ [][FilterSignature]_vars

(***************************************************************************)
(* signatures_union as a call.                                             *)
(***************************************************************************)
UnionPool ==
    { Parameter("model", "POSITIONAL_OR_KEYWORD", NoDefault, Class("Model")),
      Parameter("endpoint", "POSITIONAL_OR_KEYWORD", NoDefault,
                Optional(ForwardRef("Endpoint"))),
      Parameter("project", "POSITIONAL_OR_KEYWORD", "None", Optional(Class("str"))),
      Parameter("machine_type", "POSITIONAL_OR_KEYWORD", "None",
                Optional(Class("str"))),
      Parameter("labels", "KEYWORD_ONLY", "None",
                Optional(Generic("dict", <<Class("str"), Class("str")>>))),
      Parameter("instances", "KEYWORD_ONLY", NoDefault,
                Generic("list", <<Class("str")>>)) }

InitUnion ==
    /\ table = ResourceToMetadataType
    /\ pc = "called"
    /\ call \in
         { [fn |-> "signatures_union", init_sig |-> a, method_sig |-> b] :
             a \in SignaturesOver(UnionPool, {_empty}),
             b \in SignaturesOver(UnionPool, {_empty, Class("Endpoint")}) }
    /\ ret = NoRet
    /\ wrapper = NoWrapper
    /\ frame = NoFrame
    /\ stdout = <<>>
    /\ wrappers = <<>>
    /\ generated = <<>>
    /\ remembered = NoRemembered

SignaturesUnion ==
    /\ pc = "called"
    /\ call.fn = "signatures_union"
    /\ ret' = signatures_union(call.init_sig, call.method_sig)
    /\ pc' = "returned"
    /\ UNCHANGED <<table, call, wrapper, frame, stdout, held>>

SpecUnion == InitUnion /\ [][SignaturesUnion]_vars

(***************************************************************************)
(* The classes and methods handed to convert_method_to_component. Most     *)
(* follow the SDK; Model.register and Model.compare are shaped to have a   *)
(* parameter named as a renamed constructor parameter.                     *)
(***************************************************************************)
POK(name, default, annotation) ==
    Parameter(name, "POSITIONAL_OR_KEYWORD", default, annotation)

SelfParameter == POK("self", NoDefault, _empty)

CommonInitParameters ==
    << POK("project", "None", Optional(Class("str"))),
       POK("credentials", "None", Optional(Class("Credentials"))) >>

ResourceClass(name, resource_name, resource_name_doc) ==
    [name |-> name,
     init_signature |->
        Signature(<<SelfParameter, POK(resource_name, NoDefault, Class("str"))>>
                    \o CommonInitParameters, _empty),
     init_doc |->
        Docstring(name \o ".__init__.__doc__", TRUE,
                  "Retrieves the resource.", "",
                  << [k |-> resource_name, v |-> resource_name_doc],
                     [k |-> "project", v |-> "Optional. Project to retrieve from."],
                     [k |-> "credentials", v |-> "Optional. Custom credentials."] >>,
                  "", <<>>)]

ModelClass ==
    ResourceClass("Model", "model_name", "Required. A model resource name or ID.")
EndpointClass ==
    ResourceClass("Endpoint", "endpoint_name", "Required. An endpoint resource name or ID.")
TabularDatasetClass ==
    ResourceClass("TabularDataset", "dataset_name", "Required. A dataset resource name or ID.")
FeaturestoreClass ==
    ResourceClass("Featurestore", "featurestore_name", "Required. A featurestore resource name or ID.")

Method(cls, name, isfunction, params, return_annotation, doc) ==
    [cls |-> cls, name |-> name, isfunction |-> isfunction,
     signature |-> Signature(params, return_annotation), doc |-> doc]

SyncParameter == POK("sync", "True", Class("bool"))

Methods ==
    { Method(ModelClass, "deploy", TRUE,
             << SelfParameter,
                POK("endpoint", "None", Optional(ForwardRef("Endpoint"))),
                POK("machine_type", "None", Optional(Class("str"))),
                SyncParameter >>,
             Class("Endpoint"),
             Docstring("Model.deploy.__doc__", TRUE,
                       "Deploys model to endpoint.", "",
                       << [k |-> "endpoint", v |-> "Optional. Endpoint to deploy model to."],
                          [k |-> "machine_type", v |-> "Optional. The type of machine."],
                          [k |-> "sync", v |-> "Whether to execute this method synchronously."] >>,
                       "Endpoint with the deployed model.", <<>>)),
      Method(ModelClass, "upload", FALSE,
             << POK("display_name", NoDefault, Class("str")),
                POK("serving_container_image_uri", NoDefault, Class("str")),
                SyncParameter >>,
             StrAnn("Model"),
             Docstring("Model.upload.__doc__", TRUE,
                       "Uploads a model and returns a Model.", "",
                       << [k |-> "display_name", v |-> "Required. The display name of the Model."] >>,
                       "Instantiated representation of the uploaded model.",
                       << [k |-> "ValueError", v |-> "If only explanation_metadata is given."] >>)),
      Method(ModelClass, "register", FALSE,
             << POK("model", NoDefault, Class("str")),
                POK("model_name", "None", Optional(Class("str"))) >>,
             StrAnn("Model"),
             Docstring("Model.register.__doc__", FALSE, "", "", <<>>, "", <<>>)),
      Method(ModelClass, "compare", TRUE,
             << SelfParameter, POK("model", NoDefault, Class("Model")) >>,
             _empty,
             Docstring("Model.compare.__doc__", TRUE, "Compares two models.",
                       "", <<>>, "", <<>>)),
      Method(EndpointClass, "predict", TRUE,
             << SelfParameter,
                POK("instances", NoDefault, Generic("list", <<Class("dict")>>)),
                POK("parameters", "None",
                    Optional(Generic("dict", <<Class("str"), Class("str")>>))) >>,
             Class("Prediction"),
             Docstring("Endpoint.predict.__doc__", TRUE, "Make a prediction.",
                       "", <<>>, "Prediction with returned predictions.", <<>>)),
      Method(EndpointClass, "undeploy", TRUE,
             << SelfParameter,
                POK("deployed_model_id", NoDefault, Class("str")),
                POK("traffic_split", "None",
                    Optional(Generic("dict", <<Class("str"), Class("int")>>))),
                SyncParameter >>,
             None,
             Docstring("Endpoint.undeploy.__doc__", TRUE,
                       "Undeploys a deployed model.", "",
                       << [k |-> "deployed_model_id", v |-> "Required. The ID of the DeployedModel."] >>,
                       "", <<>>)),
      Method(TabularDatasetClass, "export_data", TRUE,
             << SelfParameter, POK("output_dir", NoDefault, Class("str")) >>,
             Generic("Sequence", <<Class("str")>>),
             Docstring("TabularDataset.export_data.__doc__", TRUE,
                       "Exports data to output dir to GCS.", "",
                       << [k |-> "output_dir", v |-> "Required. The Cloud Storage location."] >>,
                       "All of the files that are exported in this export operation.",
                       <<>>)),
      Method(TabularDatasetClass, "import_data", TRUE,
             << SelfParameter,
                POK("gcs_source", NoDefault,
                    Union(Class("str"), Generic("Sequence", <<Class("str")>>))),
                SyncParameter >>,
             StrAnn("_Dataset"),
             Docstring("TabularDataset.import_data.__doc__", TRUE,
                       "Upload data to existing managed dataset.", "",
                       << [k |-> "gcs_source", v |-> "Required. Google Cloud Storage URI(-s)."] >>,
                       "Instantiated representation of the managed dataset resource.",
                       <<>>)),
      Method(FeaturestoreClass, "delete", TRUE,
             << SelfParameter, SyncParameter >>,
             _empty,
             Docstring("Featurestore.delete.__doc__", TRUE,
                       "Deletes this resource.", "", <<>>, "", <<>>)) }

\* the values a keyword argument takes
ArgumentValues ==
    { PyNone, PyStr("n1-standard-4"), PyList(<<"a", "b">>), PipelineParam("p") }

\* the keywords a caller may pass: the names of the wrapper's signatures,
\* the SDK names of the renamed parameters, and a name in neither
KeywordsOf(w) ==
    ParameterNames(w.init_signature) \cup ParameterNames(w.method_signature)
        \cup { w.component_param_name_to_mb_sdk_param_name[i].v :
                 i \in 1..Len(w.component_param_name_to_mb_sdk_param_name) }
        \cup {"unknown"}

\* every kwargs of at most MaxKwargs arguments, in the order given
KwargsOf(w) ==
    { kw \in UNION { [1..m -> [k : KeywordsOf(w), v : ArgumentValues]] :
                       m \in 0..MaxKwargs } :
        \A i, j \in 1..Len(kw) : i < j => kw[i].k # kw[j].k }

(***************************************************************************)
(* The program: convert_method_to_component and the calls of the wrapper   *)
(* it returned.                                                            *)
(***************************************************************************)
Init ==
    /\ table = ResourceToMetadataType
    /\ pc = "idle"
    /\ call = NoCall
    /\ ret = NoRet
    /\ wrapper = NoWrapper
    /\ frame = NoFrame
    /\ stdout = <<>>
    /\ wrappers = <<>>
    /\ generated = <<>>
    /\ remembered = NoRemembered

\* convert_method_to_component(cls, method); the wrapper it returns becomes
\* the one the caller holds
Convert ==
    /\ pc = "idle"
    /\ \E method \in Methods :
         LET r == convert_method_to_component(table, method.cls, method) IN
         /\ call' = [fn |-> "convert_method_to_component",
                     cls |-> method.cls, method |-> method]
         /\ ret' = [fn |-> "convert_method_to_component",
                    raised |-> r.raised, at |-> r.at]
         /\ wrapper' = IF r.raised = "" THEN r.wrapper ELSE wrapper
    /\ pc' = "returned"
    /\ UNCHANGED <<table, frame, stdout, held>>

\* the wrapper is called: the loop over kwargs (lines 490-547)
CallWrapper ==
    /\ pc = "idle"
    /\ wrapper.made
    /\ \E kwargs \in KwargsOf(wrapper) :
         LET f == ClassifyLoop(table, wrapper, NewFrame, kwargs, 1) IN
         /\ call' = [fn |-> "component_yaml_generator", kwargs |-> kwargs]
         /\ IF f.raised # ""
            THEN /\ pc' = "returned"
                 /\ frame' = NoFrame
                 /\ ret' = [fn |-> "component_yaml_generator",
                            raised |-> f.raised, at |-> f.at]
            ELSE /\ pc' = "validate"
                 /\ frame' = f
                 /\ ret' = NoRet
    /\ UNCHANGED <<table, wrapper, stdout, held>>

\* the mutant: the constructor signature is bound whatever the method is
Validate_binds_constructor ==
    /\ pc = "validate"
    /\ IF \/ ~Binds(wrapper.init_signature, frame.init_kwargs)
          \/ ~Binds(wrapper.method_signature, frame.method_kwargs)
       THEN /\ pc' = "returned"
            /\ frame' = NoFrame
            /\ ret' = [fn |-> "component_yaml_generator",
                       raised |-> "TypeError", at |-> "Signature.bind"]
       ELSE /\ pc' = "render"
            /\ UNCHANGED <<frame, ret>>
    /\ UNCHANGED <<table, call, wrapper, stdout, held>>

\* init_signature.bind and method_signature.bind (lines 550-552)
Validate ==
    /\ pc = "validate"
    /\ IF \/ wrapper.should_serialize_init
             /\ ~Binds(wrapper.init_signature, frame.init_kwargs)
          \/ ~Binds(wrapper.method_signature, frame.method_kwargs)
       THEN /\ pc' = "returned"
            /\ frame' = NoFrame
            /\ ret' = [fn |-> "component_yaml_generator",
                       raised |-> "TypeError", at |-> "Signature.bind"]
       ELSE /\ pc' = "render"
            /\ UNCHANGED <<frame, ret>>
    /\ UNCHANGED <<table, call, wrapper, stdout, held>>

\* component_text is put together (lines 554-566)
Render ==
    /\ pc = "render"
    /\ frame' = [frame EXCEPT !.component_text = ComponentText(wrapper, frame)]
    /\ pc' = "print"
    /\ UNCHANGED <<table, call, ret, wrapper, stdout, held>>

\* print(component_text)
PrintText ==
    /\ pc = "print"
    /\ stdout' = Append(stdout, frame.component_text)
    /\ pc' = "load"
    /\ UNCHANGED <<table, call, ret, wrapper, frame, held>>

\* components.load_component_from_text(component_text) called with
\* input_kwargs: the task returned is held as the text loaded and the
\* arguments given
LoadAndInvoke ==
    /\ pc = "load"
    /\ ret' = [fn |-> "component_yaml_generator", raised |-> "", at |-> "",
               component_text |-> frame.component_text,
               arguments |-> frame.input_kwargs]
    /\ frame' = NoFrame
    /\ pc' = "returned"
    /\ UNCHANGED <<table, call, wrapper, stdout, held>>

\* the caller goes on: what the call returned, raised and printed is
\* dropped, the wrapper is kept
Return ==
    /\ pc = "returned"
    /\ pc' = "idle"
    /\ call' = NoCall
    /\ ret' = NoRet
    /\ stdout' = <<>>
    /\ UNCHANGED <<table, wrapper, frame, held>>

Next ==
    \/ Convert
    \/ CallWrapper
    \/ Validate
    \/ Render
    \/ PrintText
    \/ LoadAndInvoke
    \/ Return

Spec == Init /\ [][Next]_vars

(***************************************************************************)
(* Several wrappers held at once: convert_method_to_component is called    *)
(* again and again, the caller keeps every closure it got and calls them   *)
(* in any order. A call of a wrapper is taken whole here.                  *)
(***************************************************************************)
\* most closures the caller holds
MaxWrappers == 2

\* component_yaml_generator called on closure w with kwargs, from the loop
\* to the return: [raised, at, component_text, arguments]
component_yaml_generator(tbl, w, kwargs) ==
    LET f == ClassifyLoop(tbl, w, NewFrame, kwargs, 1)
        ended(exception, at) ==
            [fn |-> "component_yaml_generator", raised |-> exception,
             at |-> at, component_text |-> <<>>, arguments |-> <<>>]
    IN  IF f.raised # "" THEN ended(f.raised, f.at)
        ELSE IF \/ w.should_serialize_init
                   /\ ~Binds(w.init_signature, f.init_kwargs)
                \/ ~Binds(w.method_signature, f.method_kwargs)
        THEN ended("TypeError", "Signature.bind")
        ELSE [fn |-> "component_yaml_generator", raised |-> "", at |-> "",
              component_text |-> ComponentText(w, f),
              arguments |-> f.input_kwargs]

\* the mutant: the rename map is read with setdefault(key, key)
ClosureAfterCall_setdefault(w, kwargs) ==
    [w EXCEPT !.component_param_name_to_mb_sdk_param_name =
        DictUpdate(@, [i \in 1..Len(kwargs) |->
                         [k |-> kwargs[i].k,
                          v |-> DictGet(@, kwargs[i].k, kwargs[i].k)]])]

\* the closure variables of w once a call with kwargs is over: the wrapper
\* assigns to none of them (the signatures are read, the rename map is read
\* with .get, outputs and output_args are read)
ClosureAfterCall(w, kwargs) == w

\* the methods converted here: a plain function with a renamed constructor
\* parameter, a classmethod with a parameter of the renamed name, and a
\* method whose conversion raises
CarryMethods ==
    { m \in Methods :
        <<m.cls.name, m.name>> \in { <<"Model", "deploy">>,
                                     <<"Model", "register">>,
                                     <<"Endpoint", "predict">> } }

\* the kwargs of a call here: none, or one argument
CarryKwargs(w) ==
    {<<>>} \cup { <<[k |-> keyword, v |-> value]>> :
                    keyword \in KeywordsOf(w), value \in ArgumentValues }

InitCarry ==
    /\ table = ResourceToMetadataType
    /\ pc = "idle"
    /\ call = NoCall
    /\ ret = NoRet
    /\ wrapper = NoWrapper
    /\ frame = NoFrame
    /\ stdout = <<>>
    /\ wrappers = <<>>
    /\ generated = <<>>
    /\ remembered = NoRemembered

\* convert_method_to_component(cls, method): the caller keeps the closure
GenerateWrapper ==
    /\ Len(wrappers) < MaxWrappers
    /\ \E method \in CarryMethods :
         LET r == convert_method_to_component(table, method.cls, method) IN
         /\ call' = [fn |-> "convert_method_to_component",
                     cls |-> method.cls, method |-> method]
         /\ ret' = [fn |-> "convert_method_to_component",
                    raised |-> r.raised, at |-> r.at]
         /\ wrappers' = IF r.raised = "" THEN Append(wrappers, r.wrapper)
                        ELSE wrappers
         /\ generated' = IF r.raised = "" THEN Append(generated, r.wrapper)
                         ELSE generated
    /\ remembered' = IF remembered.made
                     THEN [remembered EXCEPT !.intervened = TRUE]
                     ELSE remembered
    /\ UNCHANGED <<table, pc, wrapper, frame, stdout>>

\* wrappers[i] is called with kwargs; a call that rendered may be the one
\* remembered, and any other call after it is one that came in between
CallHeldWrapper ==
    /\ \E i \in 1..Len(wrappers) :
         \E kwargs \in CarryKwargs(wrappers[i]) :
           LET r == component_yaml_generator(table, wrappers[i], kwargs)
               again == /\ remembered.made
                        /\ remembered.wrapper = i
                        /\ remembered.kwargs = kwargs
               this == [made |-> TRUE, wrapper |-> i, kwargs |-> kwargs,
                        component_text |-> r.component_text,
                        intervened |-> FALSE]
           IN
           /\ call' = [fn |-> "component_yaml_generator",
                       wrapper |-> i, kwargs |-> kwargs]
           /\ ret' = r
           /\ stdout' = IF r.raised = "" THEN <<r.component_text>> ELSE <<>>
           /\ wrappers' =
                 [wrappers EXCEPT ![i] = ClosureAfterCall(wrappers[i], kwargs)]
           /\ remembered' \in
                 IF remembered.made
                 THEN { IF again THEN remembered
                        ELSE [remembered EXCEPT !.intervened = TRUE] }
                 ELSE {remembered} \cup
                      (IF r.raised = "" THEN {this} ELSE {})
    /\ UNCHANGED <<table, pc, wrapper, frame, generated>>

NextCarry ==
    \/ GenerateWrapper
    \/ CallHeldWrapper

SpecCarry == InitCarry /\ [][NextCarry]_vars

(***************************************************************************)
(* Properties of resolve_annotation.                                       *)
(***************************************************************************)
IsResourceClass(a) ==
    a.k = "class" /\ issubclass(a.n, "AiPlatformResourceNoun")

NamesSdkClass(a) == a.k \in {"str", "fwd"} /\ a.n \in AiplatformExports

IsUnion(a) == a.k = "generic" /\ a.n = "Union"

\* Optional[X]: a union of one type and None
IsOptional(a) ==
    /\ IsUnion(a)
    /\ Len(a.args) = 2
    /\ Class("NoneType") \in {a.args[1], a.args[2]}

FirstArgumentResolved(a) ==
    IF a.args[1].k = "fwd" /\ a.args[1].n \in AiplatformExports
    THEN Class(a.args[1].n)
    ELSE a.args[1]

ResolveReturned == pc = "returned" /\ call.fn = "resolve_annotation"

\* C8 as stated: a resource class resolves to itself; a string or forward
\* reference naming an SDK class resolves to that class; otherwise an
\* Optional[X] is unwrapped to its first type argument (resolved if it is a
\* forward reference); every other annotation, a union of several non-None
\* alternatives included, is returned unchanged; inspect._empty gives None.
C8_UnionsOtherThanOptionalPassThrough ==
    ResolveReturned =>
        LET a == call.annotation
            r == ret.value
        IN  CASE IsResourceClass(a) -> r = a
              [] ~IsResourceClass(a) /\ NamesSdkClass(a) -> r = Class(a.n)
              [] IsOptional(a) -> r = FirstArgumentResolved(a)
              [] a = _empty -> r = None
              [] OTHER -> r = a

(***************************************************************************)
(* Properties of map_resource_to_metadata_type.                            *)
(***************************************************************************)
MapReturned == pc = "returned" /\ call.fn = "map_resource_to_metadata_type"

\* the keys of the table that are superclasses of class t
KeysAbove(t) ==
    { tk \in DictKeys(ResourceToMetadataType) : issubclass(t.n, tk) }

MostSpecificKey(t) ==
    CHOOSE tk \in KeysAbove(t) : \A other \in KeysAbove(t) : issubclass(tk, other)

KeyParameterName(tk) ==
    CASE tk = "_Dataset"           -> "dataset"
      [] tk = "Model"              -> "model"
      [] tk = "Endpoint"           -> "endpoint"
      [] tk = "BatchPredictionJob" -> "batchpredictionjob"

KeyPair(t) ==
    [name |-> KeyParameterName(MostSpecificKey(t)),
     type |-> DictAt(ResourceToMetadataType, MostSpecificKey(t))]

\* C9 as stated: a resource class maps to the (lower-cased, underscore
\* stripped) name and the label of the most specific table key above it, a
\* JSON-serializable container type to ('exported_dataset', 'JsonArray'),
\* anything else to nothing, whatever the iteration order of the table.
C9_EverythingElseYieldsNothing ==
    MapReturned =>
        LET t == call.mb_sdk_type
            r == ret.value
        IN  CASE IsResourceClass(t) /\ KeysAbove(t) # {} -> r = KeyPair(t)
              [] is_serializable_to_json(t) ->
                     r = [name |-> "exported_dataset", type |-> "JsonArray"]
              [] OTHER -> r = NoPair

\* C9 amended: as above, and the string '_Dataset' maps to
\* ('dataset', 'Dataset'); only what is none of the three yields nothing.
C9_ImportedDatasetStringIsMapped ==
    MapReturned =>
        LET t == call.mb_sdk_type
            r == ret.value
        IN  CASE IsResourceClass(t) /\ KeysAbove(t) # {} -> r = KeyPair(t)
              [] is_serializable_to_json(t) ->
                     r = [name |-> "exported_dataset", type |-> "JsonArray"]
              [] t = StrAnn("_Dataset") ->
                     r = [name |-> "dataset", type |-> "Dataset"]
              [] OTHER -> r = NoPair

\* a subclass of a key was mapped while the key was not first in the table
C9_Witness ==
    /\ MapReturned
    /\ call.mb_sdk_type = Class("TabularDataset")
    /\ table[Len(table)].k = "_Dataset"
    /\ ret.value = [name |-> "dataset", type |-> "Dataset"]

(***************************************************************************)
(* Properties of filter_signature.                                         *)
(***************************************************************************)
FilterReturned ==
    pc = "returned" /\ call.fn = "filter_signature" /\ ret.raised = ""

RemovedNames == {"self", "credentials", "sync"}

NotRemoved(param) == param.name \notin RemovedNames

\* the parameters of the input signature that are not removed, in order
Retained == SelectSeq(call.signature.parameters, NotRemoved)

IsResourceName(name) ==
    /\ endswith(name, "_name")
    /\ name # "display_name"
    /\ ~endswith(name, "encryption_spec_key_name")

\* new is old renamed: the '_name' suffix dropped, retyped as self_type
IsRenamed(old, new) ==
    /\ new.name \o "_name" = old.name
    /\ new.kind = old.kind
    /\ new.default = old.default
    /\ new.annotation = call.self_type

\* C5: on a constructor signature every retained parameter whose name ends
\* in '_name' (but 'display_name' and '...encryption_spec_key_name') is
\* renamed by dropping the suffix, keeps kind and default, is retyped as
\* self_type and recorded new -> old in the rename map; every other
\* retained parameter is unchanged and not recorded; on a method signature
\* nothing is renamed and the map is left as it was.
C5_RenamesResourceNames ==
    FilterReturned =>
        LET out == ret.signature.parameters IN
        /\ Len(out) = Len(Retained)
        /\ \A i \in 1..Len(Retained) :
             IF call.is_init_signature /\ IsResourceName(Retained[i].name)
             THEN /\ IsRenamed(Retained[i], out[i])
                  /\ DictHas(ret.map, out[i].name)
                  /\ DictAt(ret.map, out[i].name) = Retained[i].name
             ELSE /\ out[i] = Retained[i]
                  /\ DictHas(ret.map, out[i].name) = DictHas(call.map, out[i].name)
                  /\ DictHas(call.map, out[i].name) =>
                       DictAt(ret.map, out[i].name) = DictAt(call.map, out[i].name)
        /\ ~call.is_init_signature => ret.map = call.map

\* a constructor signature with a renamed and an exempt '_name' parameter
C5_Witness ==
    /\ FilterReturned
    /\ call.is_init_signature
    /\ call.self_type = Class("Model")
    /\ Len(Retained) = 2
    /\ Retained[1].name = "model_display_name"
    /\ Retained[2].name = "training_encryption_spec_key_name"
    /\ ret.signature.parameters[1].name = "model_display"
    /\ ret.map = <<[k |-> "model_display", v |-> "model_display_name"]>>

\* one parameter of the result for each retained one, in the same order
KeepsRetainedInOrder ==
    LET out == ret.signature.parameters IN
    /\ Len(out) = Len(Retained)
    /\ \A i \in 1..Len(Retained) :
         \/ out[i] = Retained[i]
         \/ call.is_init_signature /\ IsRenamed(Retained[i], out[i])

\* a call that has nothing to rename only omits, and does not raise
NeverFailsOnOmission ==
    ( /\ pc = "returned"
      /\ call.fn = "filter_signature"
      /\ \/ ~call.is_init_signature
         \/ \A i \in 1..Len(Retained) : ~IsResourceName(Retained[i].name) )
    => ret.raised = ""

\* C6 as stated: the result has no parameter named 'self', 'credentials' or
\* 'sync', has every other parameter of the input once and in the original
\* order, and has the input's return annotation; omission never fails.
C6_NoRemovedNameInResult ==
    /\ NeverFailsOnOmission
    /\ FilterReturned =>
         /\ \A i \in 1..Len(ret.signature.parameters) :
              ret.signature.parameters[i].name \notin RemovedNames
         /\ KeepsRetainedInOrder
         /\ ret.signature.return_annotation = call.signature.return_annotation

\* C6 amended: the result has no parameter that was named 'self',
\* 'credentials' or 'sync' in the input: a parameter of the result bears
\* such a name only as the new name of the constructor parameter
\* 'self_name', 'credentials_name' or 'sync_name'. The rest is as stated.
C6_RemovedNamesOnlyByRename ==
    /\ NeverFailsOnOmission
    /\ FilterReturned =>
         /\ \A i \in 1..Len(ret.signature.parameters) :
              ret.signature.parameters[i].name \in RemovedNames =>
                /\ call.is_init_signature
                /\ Retained[i].name = ret.signature.parameters[i].name \o "_name"
         /\ KeepsRetainedInOrder
         /\ ret.signature.return_annotation = call.signature.return_annotation

\* a removed parameter stood between two kept ones
C6_Witness ==
    /\ FilterReturned
    /\ Len(call.signature.parameters) = 2
    /\ call.signature.parameters[1].name = "project"
    /\ call.signature.parameters[2].name = "sync"
    /\ call.signature.return_annotation = Class("Endpoint")
    /\ Len(ret.signature.parameters) = 1
    /\ ret.signature.parameters[1].name = "project"

(***************************************************************************)
(* Properties of signatures_union.                                         *)
(***************************************************************************)
UnionReturned ==
    pc = "returned" /\ call.fn = "signatures_union" /\ ret.raised = ""

HasNoDefault(param) == param.default = NoDefault
HasDefault(param)   == param.default # NoDefault

\* C7: the result holds the constructor's parameters followed by the
\* method's, those without a default moved before those with one, the
\* order inside each of the two groups kept; the return annotation is the
\* method's.
C7_UnionOrdersByDefault ==
    UnionReturned =>
        LET all == call.init_sig.parameters \o call.method_sig.parameters IN
        /\ ret.signature.parameters =
              SelectSeq(all, HasNoDefault) \o SelectSeq(all, HasDefault)
        /\ ret.signature.return_annotation = call.method_sig.return_annotation

\* a constructor parameter with a default was moved behind a method
\* parameter without one
C7_Witness ==
    /\ UnionReturned
    /\ Len(call.init_sig.parameters) = 2
    /\ call.init_sig.parameters[2].name = "project"
    /\ Len(call.method_sig.parameters) = 2
    /\ call.method_sig.parameters[1].name = "endpoint"
    /\ call.method_sig.return_annotation = Class("Endpoint")
    /\ ret.signature.parameters[2].name = "endpoint"
    /\ ret.signature.parameters[3].name = "project"

(***************************************************************************)
(* Properties of convert_method_to_component and of the wrapper.           *)
(***************************************************************************)
ConvertReturned == pc = "returned" /\ call.fn = "convert_method_to_component"

\* a call of the wrapper has ended, by returning a task or by raising
WrapperEnded == pc = "returned" /\ call.fn = "component_yaml_generator"

\* a call of the wrapper has returned a task
WrapperReturned == WrapperEnded /\ ret.raised = ""

HasLine(text, line) == \E j \in 1..Len(text) : text[j] = line

\* line is followed at once by one of nexts
HasPair(text, line, nexts) ==
    \E j \in 1..(Len(text) - 1) : text[j] = line /\ text[j + 1] \in nexts

MetadataTypes == {"Dataset", "Model", "Artifact", "JsonArray"}

\* the signature the code resolves keyword k against
ScopeOf(k) ==
    IF k \in wrapper.init_arg_names
    THEN wrapper.init_signature ELSE wrapper.method_signature

PrefixOf(k) == IF k \in wrapper.init_arg_names THEN "init" ELSE "method"

ResolvedTypeOf(k) == resolve_annotation(ParameterNamed(ScopeOf(k), k).annotation)

\* the name the SDK's constructor gives the parameter the wrapper calls k
SdkInitName(k) ==
    IF \E i \in 1..Len(wrapper.cls.init_signature.parameters) :
          /\ wrapper.cls.init_signature.parameters[i].name = k \o "_name"
          /\ IsResourceName(k \o "_name")
    THEN k \o "_name"
    ELSE k

\* the name the SDK gives the parameter the wrapper calls k
SdkName(k) == IF k \in wrapper.init_arg_names THEN SdkInitName(k) ELSE k

\* the manifest lists k as an input of type T and binds it in args
IsInputOfType(text, k, T) ==
    /\ HasLine(text, "- {name: " \o k \o ", type: " \o T \o "}")
    /\ \E j \in 1..(Len(text) - 1) :
         /\ startswith(text[j], "    - --")
         /\ text[j + 1] \in { "    - {inputPath: " \o k \o "}",
                              "    - {inputValue: " \o k \o "}" }

IsInput(text, k) == \E T \in MetadataTypes \cup {"String"} : IsInputOfType(text, k, T)

IsArtifactPath(text, k) ==
    /\ \E T \in MetadataTypes : HasLine(text, "- {name: " \o k \o ", type: " \o T \o "}")
    /\ \E j \in 1..(Len(text) - 1) : text[j + 1] = "    - {inputPath: " \o k \o "}"

IsStringValue(text, k) ==
    /\ HasLine(text, "- {name: " \o k \o ", type: String}")
    /\ \E j \in 1..(Len(text) - 1) : text[j + 1] = "    - {inputValue: " \o k \o "}"

\* the static flags of the manifest: the command lines after --method_name
StaticFlags(text) ==
    { j \in 1..Len(text) :
        /\ \/ startswith(text[j], "    - --init.")
           \/ startswith(text[j], "    - --method.")
        /\ \E a \in (j + 1)..Len(text) : text[a] = "    args:" }

\* a static flag carries value for k, under k's own or its SDK name
IsStatic(text, k, value) ==
    \E j \in StaticFlags(text) :
        \E prefix \in {"init", "method"} :
            \E name \in {k, k \o "_name"} :
                text[j] = "    - --" \o prefix \o "." \o name \o "=" \o Format(value)

\* C1: of the keyword arguments of a call that returned, each one that is
\* not None is either an input of the manifest (with its args entry) or a
\* static flag of its own, never both; it is an input exactly when its
\* value is a PipelineParam or its resolved type a JSON-serializable
\* container (the value then passed on as JSON text); an input is an
\* inputPath of a metadata type exactly when its resolved type is a
\* resource class, else a String inputValue; a None argument is neither.
C1_EveryArgumentInOnePlace ==
    WrapperReturned =>
        LET text == ret.component_text
            kw   == call.kwargs
            given == { i \in 1..Len(kw) : kw[i].v # PyNone }
            becomes_input(i) ==
                \/ kw[i].v.t = "PipelineParam"
                \/ is_serializable_to_json(ResolvedTypeOf(kw[i].k))
        IN  /\ \A i \in 1..Len(kw) :
                 kw[i].v = PyNone =>
                    /\ ~IsInput(text, kw[i].k)
                    /\ ~DictHas(ret.arguments, kw[i].k)
            /\ \A i \in given :
                 /\ IsInput(text, kw[i].k) = becomes_input(i)
                 /\ IsInput(text, kw[i].k) = ~IsStatic(text, kw[i].k, kw[i].v)
                 /\ becomes_input(i) =>
                      /\ DictHas(ret.arguments, kw[i].k)
                      /\ DictAt(ret.arguments, kw[i].k) =
                            IF is_serializable_to_json(ResolvedTypeOf(kw[i].k))
                            THEN json_dumps(kw[i].v) ELSE kw[i].v
                      /\ IF IsResourceClass(ResolvedTypeOf(kw[i].k))
                         THEN IsArtifactPath(text, kw[i].k)
                              /\ ~IsStringValue(text, kw[i].k)
                         ELSE IsStringValue(text, kw[i].k)
                              /\ ~IsArtifactPath(text, kw[i].k)
            /\ Cardinality(StaticFlags(text)) =
                  Cardinality({ i \in given : ~becomes_input(i) })

\* the return annotation of the method has no artifact-type mapping
ReturnIsUnmapped(method) ==
    map_resource_to_metadata_type(
        table, resolve_annotation(method.signature.return_annotation)) = NoPair

\* C2: when the return type of the method has no artifact-type mapping,
\* convert_method_to_component does not raise on that account and the
\* manifest has no outputs section and no
\* --resource_name_output_artifact_path argument.
C2_UnmappedReturnGivesNoOutputs ==
    /\ ( /\ ConvertReturned
         /\ ReturnIsUnmapped(call.method)
         /\ ret.at \notin {"filter_signature", "signatures_union"} )
       => /\ ret.raised = ""
          /\ wrapper.method = call.method
          /\ wrapper.outputs = <<>>
          /\ wrapper.output_args = <<>>
    /\ ( WrapperReturned /\ ReturnIsUnmapped(wrapper.method) )
       => /\ ~HasLine(ret.component_text, "outputs:")
          /\ ~HasLine(ret.component_text,
                      "    - --resource_name_output_artifact_path")

\* the keyword arguments bind to the filtered signatures they belong to
KwargsBind(kwargs) ==
    LET of_init   == SelectSeq(kwargs, LAMBDA a : a.k \in wrapper.init_arg_names)
        of_method == SelectSeq(kwargs, LAMBDA a : a.k \notin wrapper.init_arg_names)
    IN  /\ wrapper.should_serialize_init => Binds(wrapper.init_signature, of_init)
        /\ Binds(wrapper.method_signature, of_method)

\* C3: keyword arguments that do not bind make the call raise the TypeError
\* of Signature.bind, before anything is rendered or printed; a call that
\* returns has validated, then rendered, then printed the manifest once,
\* then loaded it and invoked it with the collected input values.
C3_MismatchRaisesBindingError ==
    /\ WrapperEnded =>
         /\ ~KwargsBind(call.kwargs) =>
               ret.raised = "TypeError" /\ ret.at = "Signature.bind"
         /\ ret.raised # "" => stdout = <<>>
         /\ ret.raised = "" =>
               /\ KwargsBind(call.kwargs)
               /\ stdout = <<ret.component_text>>
    /\ pc \in {"validate", "render", "print"} => stdout = <<>>
    /\ pc \in {"render", "print", "load"} => KwargsBind(call.kwargs)
    /\ pc = "print" => frame.component_text = ComponentText(wrapper, frame)
    /\ pc = "load" => stdout = <<frame.component_text>>

\* C4: every keyword argument that is not None is emitted under
\* --init.<name> when it is a constructor parameter and --method.<name>
\* otherwise, <name> being the name the SDK gives the parameter, both as a
\* static flag and as an input flag; the input entry and its reference
\* bear the wrapper's name.
C4_FlagsBearSdkNames ==
    WrapperReturned =>
        LET text == ret.component_text
            kw   == call.kwargs
        IN  \A i \in 1..Len(kw) :
              kw[i].v # PyNone =>
                LET k    == kw[i].k
                    flag == "    - --" \o PrefixOf(k) \o "." \o SdkName(k)
                IN  IF \/ kw[i].v.t = "PipelineParam"
                       \/ is_serializable_to_json(ResolvedTypeOf(k))
                    THEN /\ HasPair(text, flag,
                                    { "    - {inputPath: " \o k \o "}",
                                      "    - {inputValue: " \o k \o "}" })
                         /\ \E T \in MetadataTypes \cup {"String"} :
                              HasLine(text, "- {name: " \o k \o ", type: " \o T \o "}")
                    ELSE HasLine(text, flag \o "=" \o Format(kw[i].v))

\* the description the source docstrings give the parameter the wrapper
\* calls k ("" when they give none)
SourceDescription(k) ==
    IF k \in wrapper.init_arg_names
    THEN DictGet(wrapper.cls.init_doc.params, SdkInitName(k), "")
    ELSE DictGet(wrapper.method.doc.params, k, "")

\* C10: the wrapper's docstring lists, under the wrapper's name for it,
\* the description of every parameter of the wrapper's signature that the
\* source docstrings describe, and of no other parameter.
C10_DescribedParametersAreListed ==
    ( /\ ConvertReturned
      /\ ret.raised = ""
      /\ wrapper.method.doc.parses
      /\ wrapper.cls.init_doc.parses )
    => LET exposed == ParameterNames(wrapper.signature) IN
       /\ \A k \in exposed :
            SourceDescription(k) # "" =>
               HasPair(wrapper.doc, "    " \o k \o ":",
                       {"        " \o SourceDescription(k)})
       /\ \A j \in 1..Len(wrapper.doc) :
            ( startswith(wrapper.doc[j], "    ")
              /\ ~startswith(wrapper.doc[j], "        ") )
            => \E k \in exposed :
                 /\ wrapper.doc[j] = "    " \o k \o ":"
                 /\ SourceDescription(k) # ""

(***************************************************************************)
(* Properties of the closures held together.                               *)
(***************************************************************************)
\* the call just made is the remembered one made again
RememberedCallAgain ==
    /\ call.fn = "component_yaml_generator"
    /\ remembered.made
    /\ call.wrapper = remembered.wrapper
    /\ call.kwargs = remembered.kwargs

IsPlainFunction == wrapper.method.isfunction

\* the constructor signature and the method signature, filtered
FilteredConstructor ==
    filter_signature(wrapper.cls.init_signature, TRUE,
                     Class(wrapper.cls.name), TRUE, <<>>).signature

FilteredMethod ==
    filter_signature(wrapper.method.signature, FALSE, None, FALSE, <<>>).signature

\* the names that make a keyword argument constructor-scoped
ConstructorScoped ==
    IF IsPlainFunction THEN ParameterNames(FilteredConstructor) ELSE {}

\* the arguments of the call in progress of either scope, in the order given
ConstructorArguments ==
    LET Scoped(e) == e.k \in ConstructorScoped IN SelectSeq(call.kwargs, Scoped)

MethodArguments ==
    LET Scoped(e) == e.k \notin ConstructorScoped IN SelectSeq(call.kwargs, Scoped)

WrapperCalled == call.fn = "component_yaml_generator"

\* the manifest passes argument e under flag as its resolved type asks
IsEmittedAs(text, flag, e, type) ==
    IF e.v.t = "PipelineParam" \/ is_serializable_to_json(type)
    THEN /\ HasLine(text, "- {name: " \o e.k \o ", type: "
                            \o (IF IsResourceClass(type)
                                THEN map_resource_to_metadata_type(table, type).type
                                ELSE "String") \o "}")
         /\ HasPair(text, flag,
                    { "    - {" \o (IF IsResourceClass(type) THEN "inputPath"
                                    ELSE "inputValue") \o ": " \o e.k \o "}" })
    ELSE HasLine(text, flag \o "=" \o Format(e.v))

\* C12: a wrapper of a method that is no plain function exposes the
\* filtered method signature, takes every keyword argument as an argument
\* of the method, renders no '--init.' flag and does not bind the
\* constructor signature; a wrapper of a plain function exposes the union
\* of both filtered signatures, takes a keyword argument named as a
\* filtered constructor parameter as the constructor's, resolved against
\* the constructor signature, and every other one as the method's.
C12_ScopeFollowsMethodKind ==
    /\ wrapper.made =>
         IF IsPlainFunction
         THEN LET all == FilteredConstructor.parameters \o FilteredMethod.parameters
              IN  /\ wrapper.signature.parameters =
                        SelectSeq(all, HasNoDefault) \o SelectSeq(all, HasDefault)
                  /\ wrapper.signature.return_annotation =
                        FilteredMethod.return_annotation
         ELSE wrapper.signature = FilteredMethod
    /\ (WrapperCalled /\ frame # NoFrame) =>
         /\ frame.init_kwargs = ConstructorArguments
         /\ frame.method_kwargs = MethodArguments
    /\ (WrapperCalled /\ pc = "returned" /\ ret.raised = "TypeError"
          /\ ret.at = "Signature.bind") =>
         \/ IsPlainFunction
            /\ ~Binds(FilteredConstructor, ConstructorArguments)
         \/ ~Binds(FilteredMethod, MethodArguments)
    /\ (WrapperCalled /\ pc = "returned" /\ ret.raised = "") =>
         LET text == ret.component_text IN
         /\ ~IsPlainFunction =>
              \A j \in 1..Len(text) : ~startswith(text[j], "    - --init.")
         /\ IsPlainFunction =>
              \A i \in 1..Len(call.kwargs) :
                 LET e == call.kwargs[i] IN
                 e.v # PyNone =>
                   IF e.k \in ConstructorScoped
                   THEN IsEmittedAs(text, "    - --init." \o SdkInitName(e.k), e,
                           resolve_annotation(
                              ParameterNamed(FilteredConstructor, e.k).annotation))
                   ELSE IsEmittedAs(text, "    - --method." \o e.k, e,
                           resolve_annotation(
                              ParameterNamed(FilteredMethod, e.k).annotation))

\* the wrapper of a classmethod rendered a manifest from the method's two
\* required arguments alone: the constructor's required parameter was
\* never asked for
C12_Witness ==
    /\ WrapperCalled
    /\ pc = "returned"
    /\ ret.raised = ""
    /\ ~IsPlainFunction
    /\ wrapper.method_name = "upload"
    /\ ~Binds(wrapper.init_signature, <<>>)
    /\ Len(call.kwargs) = 2
    /\ HasLine(ret.component_text, "    - --method.display_name=n1-standard-4")

====
